---- MODULE Spec2Model ----
(***************************************************************************)
(* A model of ankura's import pipeline (src/ankura/pipeline.py): the       *)
(* file-backed DocumentStream, the VocabBuilder and HashedVocabBuilder,    *)
(* and Pipeline.run with its pickle cache.                                 *)
(*                                                                         *)
(* The program is single-threaded.  Every action below is one call made    *)
(* by the program or by its caller and runs to completion; the only steps  *)
(* that interleave are the calls a caller makes between two resumptions of *)
(* a generator (a DocumentStream scan, the Inputer, an Extractor).         *)
(***************************************************************************)
EXTENDS Integers, Sequences, FiniteSets, TLC

\* ------------------------------------------------------------------------
\* Bounds of the model
\* ------------------------------------------------------------------------

\* appends made through one DocumentStream object
MaxAppends == 2
\* DocumentStream objects alive in one behaviour
MaxStreams == 2
\* scans (generators made by __iter__) alive at one time
MaxScans == 1
\* pickled snapshots of a DocumentStream kept by the caller
MaxSnaps == 1
\* lookups made on one vocabulary builder
MaxLookups == 4
\* the largest bucket count of a HashedVocabBuilder
MaxHashSize == 3
\* calls of Pipeline.run in one behaviour
MaxRuns == 2
\* files the Inputer yields in one run
MaxFiles == 2
\* Texts the Extractors yield in one run
MaxTexts == 2

\* documents of a Corpus handed to test_train_split or build_docwords
MaxDocs == 4
\* the largest count given as num_train or num_test
MaxCount == 5
\* np.random.random() is a multiple of 1/DrawGrid in [0, 1)
DrawGrid == 4
\* columns build_docwords is asked for beyond the vocabulary
MaxExtra == 1
\* (key, value) pairs of the iterable given to stream_labeler
MaxPairs == 3
\* calls of the labeler stream_labeler returned
MaxRequests == 4

\* paths a DocumentStream can be rooted at
StreamPaths == {"docsA", "docsB"}
\* document payloads of the stream specification
StreamDocs == {"d0", "d1"}
\* the tokens a Tokenizer produces
Tokens == {"cat", "dog", "mouse"}
\* the values hash(token) takes (the built-in hash is a signed integer)
HashVals == -2..3
\* paths of pickle files
CachePaths == {"cacheA"}
\* the argument given for an absent path (None; the empty string is as falsy)
NoPath == ""
\* the hash_size arguments: 0 stands for None (both are falsy)
HashSizes == {0, 2}
\* the docs_path arguments
DocsPaths == {NoPath, "docsA"}
\* the hash functions a process of the pipeline can have
PipeHashes == {[t \in Tokens |-> IF t = "dog" THEN 1 ELSE 0],
               [t \in Tokens |-> IF t = "cat" THEN -3 ELSE IF t = "dog" THEN 5 ELSE -1]}
\* the Texts an Extractor can yield: a name and the words of its data
PipeTexts == {[name |-> "a.txt", data |-> <<"cat", "dog">>],
              [name |-> "b.txt", data |-> <<"mouse", "cat", "mouse">>]}
\* the names a labeler is asked for and the keys of a label stream
LabelNames == {"a.txt", "b.txt", "c.txt"}
\* the values of a label stream
LabelValues == {1, 2}

VARIABLES
    streams,    \* the DocumentStream objects, by object id: _path, _size, _file, _flushed
    disk,       \* the backing files: path -> the whole records the OS holds
    scans,      \* the generators made by DocumentStream.__iter__
    snaps,      \* the pickled states made by DocumentStream.__getstate__
    appended,   \* history: object id -> the documents the object stands for
    snapDocs,   \* history: snapshot -> the object pickled and what it held then
    origin,     \* history: object id -> 0 if made by __init__, else the snapshot restored
    writer,     \* environment: path -> the object the file is written through
    vocab,      \* the VocabBuilder or HashedVocabBuilder object
    hashfn,     \* the built-in hash of this process, on the tokens
    lookups,    \* history: the <<token, id>> of every lookup, in order
    cache,      \* the pickle files: cache path -> the pickled Corpus, or NoCorpus
    cfg,        \* the arguments of the current or last Pipeline.run
    pc,         \* where the current Pipeline.run stands; "idle" when none runs
    documents,  \* the local documents of Pipeline.run: a list or a DocumentStream
    text,       \* the Text the Extractor yielded last
    result,     \* how the last Pipeline.run ended: a Corpus or an exception
    runs,       \* the number of calls of Pipeline.run so far
    nfiles,     \* the number of files the Inputer has yielded in this run
    ntexts,     \* the number of Texts the Extractors have yielded in this run
    offered,    \* history: the Documents this run passed to the Filterer, and its answers
    invoked,    \* history: the strategies this run has called
    split,      \* the call of test_train_split: its arguments, locals and result
    bd,         \* the call of build_docwords: its arguments, locals and result
    labeler     \* the closure stream_labeler returned: its stream, its cache, its calls

streamVars == <<streams, disk, scans, snaps, appended, snapDocs, origin, writer>>
vocabVars == <<vocab, hashfn, lookups>>
pipeVars == <<cache, cfg, pc, documents, text, result, runs, nfiles, ntexts, offered, invoked>>
\* what the caller of a DocumentStream alone leaves unchanged
consumerVars == <<split, bd, labeler>>
nonStreamVars == <<vocabVars, pipeVars, consumerVars>>
vars == <<streamVars, vocabVars, pipeVars, consumerVars>>

\* ------------------------------------------------------------------------
\* DocumentStream
\* ------------------------------------------------------------------------

\* A file object opened for writing: its mode and the records pickle.dump has
\* written that the buffered writer has not yet handed to the OS.  _file is
\* None when mode is "none".
NoFile == [mode |-> "none", buf |-> <<>>]
OpenFile(m) == [mode |-> m, buf |-> <<>>]

\* open that keeps what the file holds, as mode 'ab' does.
open_keeps_records(recs) == recs

\* open(filename, 'wb') on a file that holds recs (or does not exist): the
\* records the file holds afterwards.
OpenForWriting(recs) == <<>>

\* __init__: open(filename, 'wb') truncates the backing file.
DocumentStream_init(p) ==
    [path |-> p, size |-> 0, file |-> OpenFile("wb"), flushed |-> TRUE]

\* _flush: hands the buffered records to the OS, when there is an open file
\* that is marked dirty.  s is the object, recs the records at its path.
DocumentStream_flush(s, recs) ==
    IF s.file.mode # "none" /\ ~s.flushed
    THEN [s |-> [s EXCEPT !.file.buf = <<>>, !.flushed = TRUE],
          recs |-> recs \o s.file.buf]
    ELSE [s |-> s, recs |-> recs]

\* append that forgets to mark the object dirty.
append_stays_flushed(s, recs, doc, k) ==
    LET f == IF s.file.mode = "none" THEN OpenFile("ab") ELSE s.file
        buf == Append(f.buf, doc)
    IN  [s |-> [s EXCEPT !.file = [f EXCEPT !.buf = SubSeq(buf, k + 1, Len(buf))],
                         !.size = @ + 1],
         recs |-> recs \o SubSeq(buf, 1, k)]

\* append that reopens the file with 'wb', which truncates it.
append_reopens_truncating(s, recs, doc, k) ==
    LET f == IF s.file.mode = "none" THEN OpenFile("wb") ELSE s.file
        kept == IF s.file.mode = "none" THEN <<>> ELSE recs
        buf == Append(f.buf, doc)
    IN  [s |-> [s EXCEPT !.file = [f EXCEPT !.buf = SubSeq(buf, k + 1, Len(buf))],
                         !.size = @ + 1,
                         !.flushed = FALSE],
         recs |-> kept \o SubSeq(buf, 1, k)]

\* append: reopens the file in append mode when there is none, pickles the
\* document into the file object, counts it and marks the object dirty.  The
\* buffered writer hands data to the OS only during a write, when its buffer
\* overflows: k is the number of whole records it hands over in this write
\* (a record handed over in part cannot be read back and counts as buffered).
DocumentStream_append(s, recs, doc, k) ==
    LET f == IF s.file.mode = "none" THEN OpenFile("ab") ELSE s.file
        buf == Append(f.buf, doc)
    IN  [s |-> [s EXCEPT !.file = [f EXCEPT !.buf = SubSeq(buf, k + 1, Len(buf))],
                         !.size = @ + 1,
                         !.flushed = FALSE],
         recs |-> recs \o SubSeq(buf, 1, k)]

\* __len__
DocumentStream_len(s) == s.size

\* __getstate__ that pickles without flushing first.
getstate_noflush(s, recs) ==
    [s |-> s, recs |-> recs, state |-> <<s.path, s.size>>]

\* __getstate__: flushes, then pickles (path, size) and nothing else.
DocumentStream_getstate(s, recs) ==
    LET r == DocumentStream_flush(s, recs)
    IN  [s |-> r.s, recs |-> r.recs, state |-> <<r.s.path, r.s.size>>]

\* __setstate__: a new object at the pickled path and size, with no file and
\* marked dirty.
DocumentStream_setstate(state) ==
    [path |-> state[1], size |-> state[2], file |-> NoFile, flushed |-> FALSE]

\* pickle.load on the read handle of a scan that has read pos records: the
\* next record, or EOFError when the file holds no further whole record.
ReadRecord(recs, pos) ==
    IF pos < Len(recs)
    THEN [ok |-> TRUE, doc |-> <<recs[pos + 1]>>]
    ELSE [ok |-> FALSE, doc |-> <<>>]

IdleScan == [st |-> "idle", obj |-> 0, n |-> 0, pos |-> 0, out |-> <<>>, base |-> <<>>]

\* One resumption of the generator of __iter__ that has yielded pos of its n
\* records: it loads and yields the next record, or falls off the loop.
ScanStep(sc, recs) ==
    IF sc.pos < sc.n
    THEN LET r == ReadRecord(recs, sc.pos)
         IN  IF r.ok
             THEN [sc EXCEPT !.pos = @ + 1, !.out = @ \o r.doc]
             ELSE [sc EXCEPT !.st = "error"]
    ELSE [sc EXCEPT !.st = "done"]

\* __iter__ that opens the file for reading without flushing first.
iter_noflush(o, s, recs, hist) ==
    LET sc == [st |-> "active", obj |-> o, n |-> s.size, pos |-> 0,
               out |-> <<>>, base |-> hist]
    IN  [s |-> s, recs |-> recs, scan |-> ScanStep(sc, recs)]

\* The first resumption of the generator of __iter__ on object o: _flush(),
\* open the file for reading, range(self._size), then the first record.
DocumentStream_iter(o, s, recs, hist) ==
    LET r == DocumentStream_flush(s, recs)
        sc == [st |-> "active", obj |-> o, n |-> r.s.size, pos |-> 0,
               out |-> <<>>, base |-> hist]
    IN  [s |-> r.s, recs |-> r.recs, scan |-> ScanStep(sc, r.recs)]

\* The whole of an iteration of s run to its end from the current state.
Replay(s, recs) ==
    LET all == DocumentStream_flush(s, recs).recs
    IN  IF Len(all) >= s.size
        THEN [ok |-> TRUE, docs |-> SubSeq(all, 1, s.size)]
        ELSE [ok |-> FALSE, docs |-> all]

\* ------------------------------------------------------------------------
\* VocabBuilder and HashedVocabBuilder
\* ------------------------------------------------------------------------

\* A dict is a function on the keys it holds; {} is the function on no key.
EmptyDict == <<>>

\* __init__ of VocabBuilder
VocabBuilder_init == [kind |-> "exact", tokens |-> <<>>, types |-> EmptyDict]

\* __getitem__ that gives a token a new id on every lookup.
getitem_always_new(vb, token) ==
    LET vb2 == [tokens |-> Append(vb.tokens, token), kind |-> vb.kind,
                types |-> [t \in DOMAIN vb.types \cup {token} |->
                               IF t = token THEN Len(vb.tokens) ELSE vb.types[t]]]
    IN  [vb |-> vb2, id |-> vb2.types[token]]

\* VocabBuilder.__getitem__: a token not seen before gets len(tokens) as its
\* id and is appended to tokens; the id of the token is returned.
VocabBuilder_getitem(vb, token) ==
    LET vb2 == IF token \notin DOMAIN vb.types
               THEN [vb EXCEPT !.types = @ @@ (token :> Len(vb.tokens)),
                               !.tokens = Append(@, token)]
               ELSE vb
    IN  [vb |-> vb2, id |-> vb2.types[token]]

\* __init__ of HashedVocabBuilder (it does not call VocabBuilder.__init__)
HashedVocabBuilder_init(size) ==
    [kind |-> "hashed", buckets |-> <<>>, types |-> EmptyDict,
     size |-> size, indices |-> EmptyDict]

\* collections.defaultdict(int): the keys in insertion order and their counts
EmptyCounter == [keys |-> <<>>, cnt |-> EmptyDict]

\* b[token] += 1 on a defaultdict(int)
CounterIncr(b, token) ==
    IF token \in DOMAIN b.cnt
    THEN [b EXCEPT !.cnt[token] = @ + 1]
    ELSE [keys |-> Append(b.keys, token), cnt |-> b.cnt @@ (token :> 1)]

\* max that keeps the last key of the largest count instead of the first.
max_keeps_last(b) ==
    LET i == CHOOSE i \in 1..Len(b.keys) :
                 /\ \A j \in 1..Len(b.keys) : b.cnt[b.keys[j]] <= b.cnt[b.keys[i]]
                 /\ \A j \in (i + 1)..Len(b.keys) : b.cnt[b.keys[j]] < b.cnt[b.keys[i]]
    IN  b.keys[i]

\* max(b, key=b.get): the first key, in insertion order, of the largest count
CounterMax(b) ==
    LET i == CHOOSE i \in 1..Len(b.keys) :
                 /\ \A j \in 1..Len(b.keys) : b.cnt[b.keys[j]] <= b.cnt[b.keys[i]]
                 /\ \A j \in 1..(i - 1) : b.cnt[b.keys[j]] < b.cnt[b.keys[i]]
    IN  b.keys[i]

\* __getitem__ that uses the hash itself as the bucket key.
getitem_no_modulo(vb, token, h) ==
    LET key == h
        vb1 == IF token \notin DOMAIN vb.types
               THEN LET vbk == IF key \notin DOMAIN vb.indices
                               THEN [vb EXCEPT !.indices = @ @@ (key :> Len(vb.buckets)),
                                               !.buckets = Append(@, EmptyCounter)]
                               ELSE vb
                    IN  [vbk EXCEPT !.types = @ @@ (token :> vbk.indices[key])]
               ELSE vb
        tid == vb1.types[token]
    IN  [vb |-> [vb1 EXCEPT !.buckets[tid + 1] = CounterIncr(@, token)], id |-> tid]

\* __getitem__ that allocates a bucket for every new token, seen bucket or not.
getitem_bucket_per_token(vb, token, h) ==
    LET key == h % vb.size
        vb1 == IF token \notin DOMAIN vb.types
               THEN LET vbk == [vb EXCEPT !.indices = [k \in DOMAIN @ \cup {key} |->
                                                          IF k = key THEN Len(vb.buckets) ELSE @[k]],
                                          !.buckets = Append(@, EmptyCounter)]
                    IN  [vbk EXCEPT !.types = @ @@ (token :> vbk.indices[key])]
               ELSE vb
        tid == vb1.types[token]
    IN  [vb |-> [vb1 EXCEPT !.buckets[tid + 1] = CounterIncr(@, token)], id |-> tid]

\* HashedVocabBuilder.__getitem__, h being hash(token): a token not seen
\* before gets the id of its bucket hash(token) % size, a bucket not seen
\* before gets len(buckets) as its id and a new counter; the token is counted
\* in its bucket on every lookup.
HashedVocabBuilder_getitem(vb, token, h) ==
    LET key == h % vb.size
        vb1 == IF token \notin DOMAIN vb.types
               THEN LET vbk == IF key \notin DOMAIN vb.indices
                               THEN [vb EXCEPT !.indices = @ @@ (key :> Len(vb.buckets)),
                                               !.buckets = Append(@, EmptyCounter)]
                               ELSE vb
                    IN  [vbk EXCEPT !.types = @ @@ (token :> vbk.indices[key])]
               ELSE vb
        tid == vb1.types[token]
    IN  [vb |-> [vb1 EXCEPT !.buckets[tid + 1] = CounterIncr(@, token)], id |-> tid]

\* self[token]: the __getitem__ of the object's class
GetItem(vb, token, hf) ==
    IF vb.kind = "exact"
    THEN VocabBuilder_getitem(vb, token)
    ELSE HashedVocabBuilder_getitem(vb, token, hf[token])

\* VocabBuilder.convert, inherited by HashedVocabBuilder:
\* [TokenLoc(self[t.token], t.loc) for t in tokens], left to right.
RECURSIVE ConvertFrom(_, _, _, _, _)
ConvertFrom(vb, tokens, hf, i, out) ==
    IF i > Len(tokens)
    THEN [vb |-> vb, out |-> out]
    ELSE LET r == GetItem(vb, tokens[i].token, hf)
         IN  ConvertFrom(r.vb, tokens, hf, i + 1,
                         Append(out, [token |-> r.id, loc |-> tokens[i].loc]))

VocabBuilder_convert(vb, tokens, hf) == ConvertFrom(vb, tokens, hf, 1, <<>>)

\* The tokens attribute of VocabBuilder, the tokens property of
\* HashedVocabBuilder: each bucket's most frequently used token.
HashedVocabBuilder_tokens(vb) ==
    [i \in 1..Len(vb.buckets) |-> CounterMax(vb.buckets[i])]

VocabTokens(vb) ==
    IF vb.kind = "exact" THEN vb.tokens ELSE HashedVocabBuilder_tokens(vb)

\* A Tokenizer's output for a text made of the words ws: each word with the
\* place it stands at.
TokenLocs(ws) == [i \in 1..Len(ws) |-> [token |-> ws[i], loc |-> <<i - 1, i>>]]

\* ------------------------------------------------------------------------
\* The callers of a DocumentStream
\* ------------------------------------------------------------------------

Objects == DOMAIN streams

\* Section 5 of the specification: the storage assumes a single writer.  The
\* file at a path is written through one object at a time; a restored
\* object takes the file over only when it stands for all the records
\* written so far and the previous writer has nothing buffered.
MayWrite(o) ==
    LET w == writer[streams[o].path]
    IN  \/ w = o
        \/ /\ w \in Objects
           /\ streams[w].file.buf = <<>>
           /\ streams[w].size = streams[o].size

StreamAppend(o, doc) ==
    /\ o \in Objects
    /\ MayWrite(o)
    /\ Len(appended[o]) < MaxAppends
    /\ LET p == streams[o].path
       IN  \E k \in 0..(Len(streams[o].file.buf) + 1) :
               LET r == DocumentStream_append(streams[o], disk[p], doc, k)
               IN  /\ streams' = [streams EXCEPT ![o] = r.s]
                   /\ disk' = [disk EXCEPT ![p] = r.recs]
                   /\ writer' = [writer EXCEPT ![p] = o]
    /\ appended' = [appended EXCEPT ![o] = Append(@, doc)]
    /\ UNCHANGED <<scans, snaps, snapDocs, origin, nonStreamVars>>

\* The slot a new generator takes: the first that holds no suspended one.
FreeSlots == {i \in DOMAIN scans : scans[i].st # "active"}
FreeSlot == CHOOSE i \in FreeSlots : \A j \in FreeSlots : i <= j

ScanBegin(o) ==
    /\ o \in Objects
    /\ FreeSlots # {}
    /\ LET p == streams[o].path
           i == FreeSlot
           r == DocumentStream_iter(o, streams[o], disk[p], appended[o])
       IN  /\ streams' = [streams EXCEPT ![o] = r.s]
           /\ disk' = [disk EXCEPT ![p] = r.recs]
           /\ scans' = [scans EXCEPT ![i] = r.scan]
    /\ UNCHANGED <<snaps, appended, snapDocs, origin, writer, nonStreamVars>>

ScanNext(i) ==
    /\ i \in DOMAIN scans
    /\ scans[i].st = "active"
    /\ scans' = [scans EXCEPT ![i] = ScanStep(@, disk[streams[@.obj].path])]
    /\ UNCHANGED <<streams, disk, snaps, appended, snapDocs, origin, writer, nonStreamVars>>

\* The caller drops or closes a suspended generator: the with block closes
\* the read handle.
ScanAbandon(i) ==
    /\ i \in DOMAIN scans
    /\ scans[i].st = "active"
    /\ scans' = [scans EXCEPT ![i].st = "closed"]
    /\ UNCHANGED <<streams, disk, snaps, appended, snapDocs, origin, writer, nonStreamVars>>

Pickle(o) ==
    /\ o \in Objects
    /\ Len(snaps) < MaxSnaps
    /\ LET p == streams[o].path
           r == DocumentStream_getstate(streams[o], disk[p])
       IN  /\ streams' = [streams EXCEPT ![o] = r.s]
           /\ disk' = [disk EXCEPT ![p] = r.recs]
           /\ snaps' = Append(snaps, r.state)
    /\ snapDocs' = Append(snapDocs, [of |-> o, docs |-> appended[o],
                                      replay |-> Replay(streams[o], disk[streams[o].path])])
    /\ UNCHANGED <<scans, appended, origin, writer, nonStreamVars>>

Unpickle(k) ==
    /\ k \in DOMAIN snaps
    /\ Len(streams) < MaxStreams
    /\ streams' = Append(streams, DocumentStream_setstate(snaps[k]))
    /\ appended' = Append(appended, snapDocs[k].docs)
    /\ origin' = Append(origin, k)
    /\ UNCHANGED <<disk, scans, snaps, snapDocs, writer, nonStreamVars>>

\* hash has not been called in this process.
NoHash == [t \in Tokens |-> 0]

\* No vocabulary builder exists.
NoVocab ==
    /\ vocab = [kind |-> "none"]
    /\ hashfn = NoHash
    /\ lookups = <<>>

\* No pickle file exists and Pipeline.run has not been called.
NoCorpus == [kind |-> "absent"]
NoText == [name |-> "", data |-> <<>>]
NoDocuments == [kind |-> "none", docs |-> <<>>, obj |-> 0]
NoResult == [kind |-> "none"]
\* no call of test_train_split or build_docwords is made
NoSplit == [pc |-> "none"]
NoDocwords == [pc |-> "none"]
\* stream_labeler has not been called
NoLabeler == [pc |-> "none"]
NoConsumers == split = NoSplit /\ bd = NoDocwords /\ labeler = NoLabeler

NoPipeline ==
    /\ cache = [p \in CachePaths |-> NoCorpus]
    /\ cfg = [pickle_path |-> NoPath, docs_path |-> NoPath, hash_size |-> 0]
    /\ pc = "idle"
    /\ documents = NoDocuments
    /\ text = NoText
    /\ result = NoResult
    /\ runs = 0
    /\ nfiles = 0
    /\ ntexts = 0
    /\ offered = <<>>
    /\ invoked = {}

InitStream ==
    /\ NoVocab
    /\ NoPipeline
    /\ NoConsumers
    /\ streams = <<DocumentStream_init("docsA")>>
    /\ writer = [q \in StreamPaths |-> IF q = "docsA" THEN 1 ELSE 0]
    /\ disk = [q \in StreamPaths |-> <<>>]
    /\ scans = [i \in 1..MaxScans |-> IdleScan]
    /\ snaps = <<>>
    /\ appended = <<(<<>>)>>
    /\ snapDocs = <<>>
    /\ origin = <<0>>

NextStream ==
    \/ \E o \in Objects, doc \in StreamDocs : StreamAppend(o, doc)
    \/ \E o \in Objects : ScanBegin(o)
    \/ \E i \in DOMAIN scans : ScanNext(i)
    \/ \E i \in DOMAIN scans : ScanAbandon(i)
    \/ \E o \in Objects : Pickle(o)
    \/ \E k \in DOMAIN snaps : Unpickle(k)

SpecStream == InitStream /\ [][NextStream]_vars

\* ------------------------------------------------------------------------
\* Properties of DocumentStream (checked under SpecStream)
\* ------------------------------------------------------------------------

Started == {i \in DOMAIN scans : scans[i].st # "idle"}
Constructed == {o \in Objects : origin[o] = 0}
Restored == {o \in Objects : origin[o] # 0}

\* C1: after N appends on a DocumentStream made by __init__, every iteration
\* that runs to its end - the first, a repeated one, one begun after an
\* earlier one was abandoned - has yielded exactly the N documents appended
\* before it began, in append order, no iteration fails, and len(stream) is
\* the number of appends whatever iterations have run.
C1_IterationYieldsAppended ==
    /\ \A o \in Constructed : DocumentStream_len(streams[o]) = Len(appended[o])
    /\ \A i \in Started :
          scans[i].obj \in Constructed =>
              /\ scans[i].st # "error"
              /\ scans[i].st = "done" =>
                    /\ scans[i].out = scans[i].base
                    /\ Len(scans[i].out) = scans[i].n

\* C1 witness: a finished iteration of a constructed stream that yielded two
\* different documents, while the stream's length is 2.
C1_Witness ==
    \E i \in Started :
        /\ scans[i].st = "done"
        /\ scans[i].obj \in Constructed
        /\ Len(scans[i].out) = 2
        /\ scans[i].out[1] # scans[i].out[2]
        /\ DocumentStream_len(streams[scans[i].obj]) = 2

\* C2: a pickled DocumentStream is (path, size) of the object and nothing
\* else, and an iteration of the object restored from it (before anything is
\* appended through the restored object) yields what an iteration of the
\* original yielded at the time of pickling, and does not fail.
C2_RestoredYieldsSame ==
    /\ \A k \in DOMAIN snaps :
          /\ snaps[k] = <<streams[snapDocs[k].of].path, Len(snapDocs[k].docs)>>
          /\ snapDocs[k].replay.ok
    /\ \A i \in Started :
          LET sc == scans[i] IN
          (sc.obj \in Restored /\ Len(sc.base) = snaps[origin[sc.obj]][2]) =>
              /\ sc.st # "error"
              /\ sc.out = SubSeq(snapDocs[origin[sc.obj]].replay.docs, 1, sc.pos)
              /\ sc.st = "done" => sc.out = snapDocs[origin[sc.obj]].replay.docs

\* C2 witness: a finished iteration of a restored stream that yielded two
\* documents.
C2_Witness ==
    \E i \in Started :
        /\ scans[i].st = "done"
        /\ scans[i].obj \in Restored
        /\ Len(scans[i].out) = 2

\* C3: an iteration flushes before it reads: from its first resumption on,
\* all the records it is going to read are in the file (none is still
\* buffered), they are the documents appended before it began, and what it
\* has yielded is a prefix of those: never a document appended later.
C3_ScanReadsFlushedOnly ==
    \A i \in Started :
        LET sc == scans[i]
            recs == disk[streams[sc.obj].path]
        IN  /\ sc.st # "error"
            /\ sc.n = Len(sc.base)
            /\ sc.n <= Len(recs)
            /\ SubSeq(recs, 1, sc.n) = sc.base
            /\ sc.pos <= sc.n
            /\ sc.out = SubSeq(sc.base, 1, sc.pos)

\* C3 witness: a suspended iteration that has yielded a record while a
\* document appended after it began is still buffered.
C3_Witness ==
    \E i \in Started :
        /\ scans[i].st = "active"
        /\ scans[i].pos >= 1
        /\ Len(appended[scans[i].obj]) > Len(scans[i].base)
        /\ streams[scans[i].obj].file.buf # <<>>

\* the documents a restored object was pickled with, and those appended
\* through it since
Originals(o) == snapDocs[origin[o]].replay.docs
Further(o) == SubSeq(appended[o], snaps[origin[o]][2] + 1, Len(appended[o]))

\* C22: a DocumentStream restored from a snapshot of N documents has no write
\* handle until something is appended through it, and from its first append
\* on a handle opened in append mode; the N records of the snapshot stay in
\* the file; after k appends through it its length is N+k, and an iteration
\* of it run to its end does not fail and yields the N documents of the
\* snapshot followed by the k new ones in append order.
C22_RestoredAppendPreserves ==
    \A o \in Restored :
        LET N == snaps[origin[o]][2]
            recs == disk[streams[o].path]
            all == Originals(o) \o Further(o)
        IN  /\ Len(Originals(o)) = N
            /\ Further(o) = <<>> => streams[o].file.mode = "none"
            /\ Further(o) # <<>> => streams[o].file.mode = "ab"
            /\ Len(recs) >= N
            /\ SubSeq(recs, 1, N) = Originals(o)
            /\ DocumentStream_len(streams[o]) = N + Len(Further(o))
            /\ Replay(streams[o], recs) = [ok |-> TRUE, docs |-> all]
            /\ \A i \in Started :
                  scans[i].obj = o =>
                      /\ scans[i].st # "error"
                      /\ scans[i].out = SubSeq(Originals(o) \o Further(o), 1, scans[i].pos)
                      /\ scans[i].st = "done" => scans[i].pos = Len(scans[i].base)

\* C22 witness: a finished iteration of a stream restored from a snapshot of
\* one document, begun after another document was appended through it, that
\* yielded the two, the new one different from the old one.
C22_Witness ==
    \E i \in Started :
        /\ scans[i].st = "done"
        /\ scans[i].obj \in Restored
        /\ snaps[origin[scans[i].obj]][2] = 1
        /\ Len(Further(scans[i].obj)) = 1
        /\ Len(scans[i].out) = 2
        /\ scans[i].out[1] # scans[i].out[2]
        /\ streams[scans[i].obj].file.mode = "ab"

\* ------------------------------------------------------------------------
\* The callers of a vocabulary builder
\* ------------------------------------------------------------------------

\* No DocumentStream exists.
NoStream ==
    /\ streams = <<>>
    /\ disk = [q \in StreamPaths |-> <<>>]
    /\ scans = [i \in 1..MaxScans |-> IdleScan]
    /\ snaps = <<>>
    /\ appended = <<>>
    /\ snapDocs = <<>>
    /\ origin = <<>>
    /\ writer = [q \in StreamPaths |-> 0]

\* the <<token, id>> pairs of one convert call
ConvertLog(tokens, out) == [i \in 1..Len(tokens) |-> <<tokens[i].token, out[i].token>>]

\* vocab[token]
Lookup(token) ==
    /\ vocab.kind # "none"
    /\ Len(lookups) < MaxLookups
    /\ LET r == GetItem(vocab, token, hashfn)
       IN  /\ vocab' = r.vb
           /\ lookups' = Append(lookups, <<token, r.id>>)
    /\ UNCHANGED <<hashfn, streamVars, pipeVars, consumerVars>>

\* vocab.convert(tokens) on the token/location pairs of two words
Convert(w1, w2) ==
    /\ vocab.kind # "none"
    /\ Len(lookups) + 2 <= MaxLookups
    /\ LET tokens == TokenLocs(<<w1, w2>>)
           r == VocabBuilder_convert(vocab, tokens, hashfn)
       IN  /\ vocab' = r.vb
           /\ lookups' = lookups \o ConvertLog(tokens, r.out)
    /\ UNCHANGED <<hashfn, streamVars, pipeVars, consumerVars>>

InitVocab ==
    /\ NoStream
    /\ NoPipeline
    /\ NoConsumers
    /\ vocab \in {VocabBuilder_init} \cup {HashedVocabBuilder_init(n) : n \in 1..MaxHashSize}
    /\ hashfn \in [Tokens -> HashVals]
    /\ lookups = <<>>

NextVocab ==
    \/ \E token \in Tokens : Lookup(token)
    \/ \E w1 \in Tokens, w2 \in Tokens : Convert(w1, w2)

SpecVocab == InitVocab /\ [][NextVocab]_vars

\* ------------------------------------------------------------------------
\* Properties of the vocabulary builders (checked under SpecVocab)
\* ------------------------------------------------------------------------

\* the tokens looked up so far, each once, in the order first seen
RECURSIVE FirstSeen(_)
FirstSeen(log) ==
    IF log = <<>> THEN <<>>
    ELSE LET before == FirstSeen(SubSeq(log, 1, Len(log) - 1))
             t == log[Len(log)][1]
         IN  IF \E i \in 1..Len(before) : before[i] = t THEN before
             ELSE Append(before, t)

IndexIn(seq, t) == CHOOSE i \in 1..Len(seq) : seq[i] = t

\* C9: on a VocabBuilder, after any lookups: a token always gets the same
\* id; the j-th distinct token in first-seen order (from 0) has id j, so the
\* ids are 0..n-1; tokens[id] is the token that got the id, and the types
\* map and the tokens list are inverse to each other.
C9_ExactVocabDense ==
    vocab.kind = "exact" =>
        LET seen == FirstSeen(lookups) IN
        /\ \A i \in 1..Len(lookups), j \in 1..Len(lookups) :
              lookups[i][1] = lookups[j][1] => lookups[i][2] = lookups[j][2]
        /\ \A i \in 1..Len(lookups) :
              lookups[i][2] = IndexIn(seen, lookups[i][1]) - 1
        /\ {lookups[i][2] : i \in 1..Len(lookups)} = 0..(Len(seen) - 1)
        /\ vocab.tokens = seen
        /\ DOMAIN vocab.types = {seen[i] : i \in 1..Len(seen)}
        /\ \A t \in DOMAIN vocab.types : vocab.tokens[vocab.types[t] + 1] = t
        /\ \A i \in 1..Len(vocab.tokens) : vocab.types[vocab.tokens[i]] = i - 1

\* C9 witness: three distinct tokens were looked up, one of them twice.
C9_Witness ==
    /\ vocab.kind = "exact"
    /\ Len(lookups) = 4
    /\ Len(vocab.tokens) = 3
    /\ lookups[1][1] = lookups[4][1]

\* C10: a HashedVocabBuilder(size), size > 0, never allocates more than size
\* ids, however many distinct tokens are looked up: every id returned is in
\* 0..size-1 and the exported tokens list has at most size entries.
C10_HashedVocabBounded ==
    vocab.kind = "hashed" =>
        /\ \A i \in 1..Len(lookups) : lookups[i][2] \in 0..(vocab.size - 1)
        /\ Cardinality({lookups[i][2] : i \in 1..Len(lookups)}) <= vocab.size
        /\ Len(HashedVocabBuilder_tokens(vocab)) <= vocab.size
        /\ Len(vocab.buckets) <= vocab.size

\* C10 witness: more distinct tokens than buckets were looked up and every
\* one of at least two buckets is allocated.
C10_Witness ==
    /\ vocab.kind = "hashed"
    /\ vocab.size >= 2
    /\ Cardinality(DOMAIN vocab.types) > vocab.size
    /\ Len(HashedVocabBuilder_tokens(vocab)) = vocab.size

\* how many times token was looked up, and the place of its first lookup
LookupCount(token) == Cardinality({i \in 1..Len(lookups) : lookups[i][1] = token})
FirstLookup(token) == CHOOSE i \in 1..Len(lookups) :
                          /\ lookups[i][1] = token
                          /\ \A j \in 1..(i - 1) : lookups[j][1] # token

\* the tokens that were looked up and got the id tid
RoutedTo(tid) == {lookups[i][1] : i \in {j \in 1..Len(lookups) : lookups[j][2] = tid}}

\* C11: after any lookups on a HashedVocabBuilder, the token exported for
\* each allocated bucket was routed to that bucket and was looked up at
\* least as often (every lookup counted, the first included) as any other
\* token routed to it; of the tokens looked up that often, it is the one
\* looked up first.
C11_RepresentativeIsMostFrequent ==
    vocab.kind = "hashed" =>
        LET exported == HashedVocabBuilder_tokens(vocab) IN
        /\ Len(exported) = Cardinality({lookups[i][2] : i \in 1..Len(lookups)})
        /\ \A b \in 1..Len(exported) :
              /\ exported[b] \in RoutedTo(b - 1)
              /\ \A t \in RoutedTo(b - 1) :
                    /\ LookupCount(t) <= LookupCount(exported[b])
                    /\ LookupCount(t) = LookupCount(exported[b]) =>
                          FirstLookup(exported[b]) <= FirstLookup(t)

\* C11 witness: two tokens of one bucket were looked up twice each, the one
\* met second reaching two lookups first; the one met first is exported.
C11_Witness ==
    /\ vocab.kind = "hashed"
    /\ Len(lookups) = 4
    /\ lookups[1][1] # lookups[2][1]
    /\ lookups[1][2] = lookups[2][2]
    /\ lookups[3][1] = lookups[2][1]
    /\ lookups[4][1] = lookups[1][1]
    /\ HashedVocabBuilder_tokens(vocab)[lookups[1][2] + 1] = lookups[1][1]

\* the bucket of a token: hash(token) % size
BucketOf(token) == hashfn[token] % vocab.size

\* the <<bucket, id>> of every lookup, in order
BucketLog == [i \in 1..Len(lookups) |-> <<BucketOf(lookups[i][1]), lookups[i][2]>>]

\* C21: after any lookups on a HashedVocabBuilder(size), every lookup returned
\* the id of the bucket hash(token) % size of its token; two lookups returned
\* the same id exactly when their tokens fall in the same bucket; the j-th
\* distinct bucket in first-seen order (from 0) has id j, so the ids of the m
\* buckets seen are 0..m-1.
C21_LookupReturnsBucketId ==
    vocab.kind = "hashed" =>
        LET seen == FirstSeen(BucketLog) IN
        /\ \A i \in 1..Len(lookups) :
              /\ BucketOf(lookups[i][1]) \in DOMAIN vocab.indices
              /\ lookups[i][2] = vocab.indices[BucketOf(lookups[i][1])]
              /\ lookups[i][2] = IndexIn(seen, BucketOf(lookups[i][1])) - 1
        /\ \A i \in 1..Len(lookups), j \in 1..Len(lookups) :
              lookups[i][2] = lookups[j][2] <=>
                  BucketOf(lookups[i][1]) = BucketOf(lookups[j][1])
        /\ {lookups[i][2] : i \in 1..Len(lookups)} = 0..(Len(seen) - 1)
        /\ Len(vocab.buckets) = Len(seen)

\* C21 witness: two different tokens of one bucket got the same id, a token
\* of another bucket got another id, and the bucket seen first (id 0) is not
\* bucket 0.
C21_Witness ==
    /\ vocab.kind = "hashed"
    /\ Len(lookups) >= 3
    /\ BucketOf(lookups[1][1]) # 0
    /\ \E i \in 1..Len(lookups), j \in 1..Len(lookups), k \in 1..Len(lookups) :
          /\ lookups[i][1] # lookups[j][1]
          /\ lookups[i][2] = lookups[j][2]
          /\ lookups[k][2] # lookups[i][2]
          /\ BucketOf(lookups[k][1]) = 0

\* ------------------------------------------------------------------------
\* Pipeline
\* ------------------------------------------------------------------------

\* The namedtuples Document and Corpus
Document(data, tokens, metadata) == [text |-> data, tokens |-> tokens, metadata |-> metadata]
Corpus(docs, vocabulary, metadata) ==
    [documents |-> docs, vocabulary |-> vocabulary, metadata |-> metadata]

\* The storage Pipeline.run chooses: [] or DocumentStream(docs_path)
ListDocuments(docs) == [kind |-> "list", docs |-> docs, obj |-> 0]
StreamDocuments(o) == [kind |-> "stream", docs |-> <<>>, obj |-> o]

\* title_labeler(): the labeler the modelled pipelines are built with
title_labeler(name) == [title |-> name]

\* len(corpus.documents)
DocumentsLen(d) ==
    IF d.kind = "list" THEN Len(d.docs) ELSE DocumentStream_len(streams[d.obj])

\* num_docs_informer(): the informer the modelled pipelines are built with
num_docs_informer(corpus) == [num_docs |-> DocumentsLen(corpus.documents)]

\* dict.update: the keys of new replace those of old
DictUpdate(old, new) == new @@ old

\* pickle.dump of the Corpus as it was before the Informer's output was merged.
pickled_before_informer(corpus, state) ==
    [documents |-> [kind |-> corpus.documents.kind, docs |-> corpus.documents.docs,
                    state |-> state],
     vocabulary |-> corpus.vocabulary,
     metadata |-> EmptyDict]

\* What pickle.dump writes for a Corpus: a list of documents as it is, a
\* DocumentStream as the state its __getstate__ returns.
PickledCorpus(corpus, state) ==
    [documents |-> [kind |-> corpus.documents.kind, docs |-> corpus.documents.docs,
                    state |-> state],
     vocabulary |-> corpus.vocabulary,
     metadata |-> corpus.metadata]

\* What pickle.load returns for a pickled Corpus; o is the DocumentStream
\* that __setstate__ restores, if any.
LoadedCorpus(pickled, o) ==
    [documents |-> [kind |-> pickled.documents.kind, docs |-> pickled.documents.docs,
                    obj |-> o],
     vocabulary |-> pickled.vocabulary,
     metadata |-> pickled.metadata]

\* The test of run without os.path.exists: no pickle file is ever found.
exists_not_tested(pickle_path) == FALSE

\* pickle_path and os.path.exists(pickle_path)
CacheHit(pickle_path) ==
    pickle_path # NoPath /\ cache[pickle_path] # NoCorpus

\* documents.append(document), on a list or through DocumentStream.append
\* (k: the whole records the buffered writer hands to the OS in this write).
AppendDocument(document, k) ==
    IF documents.kind = "list"
    THEN /\ documents' = [documents EXCEPT !.docs = Append(@, document)]
         /\ UNCHANGED streamVars
    ELSE LET o == documents.obj
             p == streams[o].path
             r == DocumentStream_append(streams[o], disk[p], document, k)
         IN  /\ streams' = [streams EXCEPT ![o] = r.s]
             /\ disk' = [disk EXCEPT ![p] = r.recs]
             /\ appended' = [appended EXCEPT ![o] = Append(@, document)]
             /\ UNCHANGED <<documents, scans, snaps, snapDocs, origin, writer>>

\* The k a write through documents.append can hand over.
Spills == IF documents.kind = "stream"
          THEN 0..(Len(streams[documents.obj].file.buf) + 1)
          ELSE {0}

\* The snapshot a pickled DocumentStream state is (history).
SnapOf(state) == CHOOSE k \in DOMAIN snaps : snaps[k] = state

\* run that removes what it wrote to docs_path when a strategy raises.
raise_rolls_back(strategy, called) ==
    /\ pc' = "idle"
    /\ result' = [kind |-> "raised", by |-> strategy]
    /\ invoked' = invoked \cup called \cup {strategy}
    /\ documents' = NoDocuments
    /\ vocab' = [kind |-> "none"]
    /\ IF documents.kind = "stream"
       THEN LET o == documents.obj
                p == streams[o].path
            IN  /\ disk' = [disk EXCEPT ![p] = <<>>]
                /\ streams' = [streams EXCEPT ![o].file = NoFile]
                /\ UNCHANGED <<scans, snaps, appended, snapDocs, origin, writer>>
       ELSE UNCHANGED streamVars
    /\ UNCHANGED <<cache, cfg, text, runs, nfiles, ntexts, offered, hashfn, lookups>>

\* A strategy raised, after the strategies in called had returned: the
\* exception leaves Pipeline.run, which returns nothing and writes no pickle
\* file.  The locals of run are dropped with the exception; a DocumentStream
\* among them is closed, which hands what its file object still buffers to
\* the OS.
Raise(strategy, called) ==
    /\ pc' = "idle"
    /\ result' = [kind |-> "raised", by |-> strategy]
    /\ invoked' = invoked \cup called \cup {strategy}
    /\ documents' = NoDocuments
    /\ vocab' = [kind |-> "none"]
    /\ IF documents.kind = "stream"
       THEN LET o == documents.obj
                p == streams[o].path
            IN  /\ disk' = [disk EXCEPT ![p] = @ \o streams[o].file.buf]
                /\ streams' = [streams EXCEPT ![o].file = NoFile]
                /\ UNCHANGED <<scans, snaps, appended, snapDocs, origin, writer>>
       ELSE UNCHANGED streamVars
    /\ UNCHANGED <<cache, cfg, text, runs, nfiles, ntexts, offered, hashfn, lookups>>

\* Pipeline.run(pickle_path, docs_path, hash_size) up to the first resumption
\* of the Inputer: the pickled Corpus if there is one, else the storage and
\* the vocabulary builder are made.  While the call runs, the caller still
\* holds the Corpus the call before it returned (result of kind "held").
RunCall(pickle_path, docs_path, hash_size) ==
    /\ pc = "idle"
    /\ runs < MaxRuns
    /\ UNCHANGED consumerVars
    /\ runs' = runs + 1
    /\ cfg' = [pickle_path |-> pickle_path, docs_path |-> docs_path, hash_size |-> hash_size]
    /\ invoked' = {}
    /\ offered' = <<>>
    /\ nfiles' = 0
    /\ ntexts' = 0
    /\ text' = NoText
    /\ IF CacheHit(pickle_path)
       THEN LET pickled == cache[pickle_path] IN
            /\ IF pickled.documents.kind = "stream"
               THEN /\ Len(streams) < MaxStreams
                    /\ streams' = Append(streams, DocumentStream_setstate(pickled.documents.state))
                    /\ appended' = Append(appended, snapDocs[SnapOf(pickled.documents.state)].docs)
                    /\ origin' = Append(origin, SnapOf(pickled.documents.state))
                    /\ result' = [kind |-> "corpus",
                                  corpus |-> LoadedCorpus(pickled, Len(streams) + 1)]
                    /\ UNCHANGED <<disk, scans, snaps, snapDocs, writer>>
               ELSE /\ result' = [kind |-> "corpus", corpus |-> LoadedCorpus(pickled, 0)]
                    /\ UNCHANGED streamVars
            /\ UNCHANGED <<pc, documents, vocab, cache>>
       ELSE /\ pc' = "files"
            /\ result' = IF result.kind \in {"corpus", "held"}
                         THEN [kind |-> "held", corpus |-> result.corpus]
                         ELSE NoResult
            /\ IF docs_path # NoPath
               THEN /\ Len(streams) < MaxStreams
                    /\ streams' = Append(streams, DocumentStream_init(docs_path))
                    /\ disk' = [disk EXCEPT ![docs_path] = OpenForWriting(@)]
                    /\ appended' = Append(appended, <<>>)
                    /\ origin' = Append(origin, 0)
                    /\ writer' = [writer EXCEPT ![docs_path] = Len(streams) + 1]
                    /\ documents' = StreamDocuments(Len(streams) + 1)
                    /\ UNCHANGED <<scans, snaps, snapDocs>>
               ELSE /\ documents' = ListDocuments(<<>>)
                    /\ UNCHANGED streamVars
            /\ vocab' = IF hash_size # 0 THEN HashedVocabBuilder_init(hash_size)
                        ELSE VocabBuilder_init
            /\ UNCHANGED cache
    /\ UNCHANGED <<hashfn, lookups>>

\* for docfile in self.inputer(): the Inputer yields a file and the
\* Extractor is called on it, or the Inputer is exhausted, or it raises.
FileNext(ev) ==
    /\ pc = "files"
    /\ UNCHANGED consumerVars
    /\ CASE ev = "file" ->
              /\ nfiles < MaxFiles
              /\ nfiles' = nfiles + 1
              /\ pc' = "texts"
              /\ invoked' = invoked \cup {"inputer", "extractor"}
              /\ UNCHANGED <<result, documents, vocab, text, streamVars, cache, cfg, runs,
                             ntexts, offered, hashfn, lookups>>
         [] ev = "stop" ->
              /\ pc' = "finish"
              /\ invoked' = invoked \cup {"inputer"}
              /\ UNCHANGED <<result, documents, vocab, text, streamVars, cache, cfg, runs,
                             nfiles, ntexts, offered, hashfn, lookups>>
         [] ev = "raise" -> Raise("inputer", {})

\* for text in self.extractor(docfile): the Extractor yields a Text, or is
\* exhausted, or raises.
TextNext(ev, t) ==
    /\ pc = "texts"
    /\ UNCHANGED consumerVars
    /\ CASE ev = "text" ->
              /\ ntexts < MaxTexts
              /\ ntexts' = ntexts + 1
              /\ pc' = "text"
              /\ text' = t
              /\ UNCHANGED <<result, documents, vocab, streamVars, cache, cfg, runs, nfiles,
                             offered, invoked, hashfn, lookups>>
         [] ev = "stop" ->
              /\ pc' = "files"
              /\ UNCHANGED <<text, result, documents, vocab, streamVars, cache, cfg, runs,
                             nfiles, ntexts, offered, invoked, hashfn, lookups>>
         [] ev = "raise" -> Raise("extractor", {})

\* run that appends the Document whatever the Filterer answered.
append_unfiltered(document, keep, k) == AppendDocument(document, k)

\* self.filterer(document) returned keep: documents.append(document) if so.
FilterAndAppend(document, keep, k) ==
    IF keep THEN AppendDocument(document, k) ELSE UNCHANGED <<documents, streamVars>>

\* The body of the loop for one Text: tokenizer, vocab.convert, labeler,
\* Document, filterer, documents.append.  ev says what the strategies do:
\* one of them raises, or the Filterer keeps or drops the Document.
ProcessText(ev, k) ==
    /\ pc = "text"
    /\ UNCHANGED consumerVars
    /\ LET tokens == TokenLocs(text.data)
           conv == VocabBuilder_convert(vocab, tokens, hashfn)
           types == conv.out
           metadata == title_labeler(text.name)
           document == Document(text.data, types, metadata)
       IN  CASE ev = "tokenizer" -> Raise("tokenizer", {})
             [] ev = "labeler" -> Raise("labeler", {"tokenizer"})
             [] ev = "filterer" -> Raise("filterer", {"tokenizer", "labeler"})
             [] ev \in {"keep", "drop"} ->
                  /\ vocab' = conv.vb
                  /\ invoked' = invoked \cup {"tokenizer", "labeler", "filterer"}
                  /\ offered' = Append(offered, [doc |-> document, kept |-> ev = "keep", nth |-> ntexts])
                  /\ pc' = "texts"
                  /\ FilterAndAppend(document, ev = "keep", k)
                  /\ UNCHANGED <<text, result, cache, cfg, runs, nfiles, ntexts, hashfn, lookups>>

\* The Corpus that run returns: Corpus(documents, vocab.tokens, {}) with the
\* Informer's output merged into its metadata, if there is an Informer.
FinishedCorpus(informer) ==
    LET corpus == Corpus(documents, VocabTokens(vocab), EmptyDict)
    IN  IF informer = "none" THEN corpus
        ELSE [corpus EXCEPT !.metadata = DictUpdate(@, num_docs_informer(corpus))]

\* pickle.dump(corpus, open(pickle_path, 'wb')): a DocumentStream among the
\* documents is pickled by its __getstate__, which flushes it.
Dump(corpus) ==
    IF corpus.documents.kind = "stream"
    THEN LET o == corpus.documents.obj
             p == streams[o].path
             r == DocumentStream_getstate(streams[o], disk[p])
         IN  /\ streams' = [streams EXCEPT ![o] = r.s]
             /\ disk' = [disk EXCEPT ![p] = r.recs]
             /\ snaps' = Append(snaps, r.state)
             /\ snapDocs' = Append(snapDocs, [of |-> o, docs |-> appended[o],
                                               replay |-> Replay(streams[o], disk[p])])
             /\ cache' = [cache EXCEPT ![cfg.pickle_path] = PickledCorpus(corpus, r.state)]
             /\ UNCHANGED <<scans, appended, origin, writer>>
    ELSE /\ cache' = [cache EXCEPT ![cfg.pickle_path] = PickledCorpus(corpus, <<NoPath, 0>>)]
         /\ UNCHANGED streamVars

\* The rest of Pipeline.run once the Inputer is exhausted: the Corpus is
\* built, the Informer (if any) is called and may raise, the Corpus is
\* pickled if there is a pickle_path, and returned.
Finish(informer) ==
    /\ pc = "finish"
    /\ UNCHANGED consumerVars
    /\ CASE informer = "raise" -> Raise("informer", {})
         [] informer \in {"none", "num_docs"} ->
              LET corpus == FinishedCorpus(informer)
              IN  /\ result' = [kind |-> "corpus", corpus |-> corpus]
                  /\ pc' = "idle"
                  /\ invoked' = IF informer = "none" THEN invoked
                                ELSE invoked \cup {"informer"}
                  /\ IF cfg.pickle_path # NoPath
                     THEN Dump(corpus)
                     ELSE UNCHANGED <<cache, streamVars>>
                  /\ documents' = NoDocuments
                  /\ vocab' = [kind |-> "none"]
                  /\ UNCHANGED <<cfg, text, runs, nfiles, ntexts, offered, hashfn, lookups>>

InitPipe ==
    /\ NoStream
    /\ NoConsumers
    /\ vocab = [kind |-> "none"]
    /\ hashfn \in PipeHashes
    /\ lookups = <<>>
    /\ cache = [p \in CachePaths |-> NoCorpus]
    /\ cfg = [pickle_path |-> NoPath, docs_path |-> NoPath, hash_size |-> 0]
    /\ pc = "idle"
    /\ documents = NoDocuments
    /\ text = NoText
    /\ result = NoResult
    /\ runs = 0
    /\ nfiles = 0
    /\ ntexts = 0
    /\ offered = <<>>
    /\ invoked = {}

NextPipe ==
    \/ \E pp \in CachePaths \cup {NoPath}, dp \in DocsPaths, hs \in HashSizes :
           RunCall(pp, dp, hs)
    \/ \E ev \in {"file", "stop", "raise"} : FileNext(ev)
    \/ \E ev \in {"text", "stop", "raise"}, t \in PipeTexts : TextNext(ev, t)
    \/ \E ev \in {"tokenizer", "labeler", "filterer", "keep", "drop"}, k \in Spills :
           ProcessText(ev, k)
    \/ \E informer \in {"none", "num_docs", "raise"} : Finish(informer)

SpecPipe == InitPipe /\ [][NextPipe]_vars

\* ------------------------------------------------------------------------
\* Properties of Pipeline.run (checked under SpecPipe)
\* ------------------------------------------------------------------------

\* the Documents the Filterer accepted, in the order they were offered
RECURSIVE Kept(_)
Kept(off) ==
    IF off = <<>> THEN <<>>
    ELSE LET rest == Kept(SubSeq(off, 1, Len(off) - 1))
             last == off[Len(off)]
         IN  IF last.kept THEN Append(rest, last.doc) ELSE rest

\* what iterating over a list or a DocumentStream of documents yields
StoredDocs(d, strs, dsk) ==
    IF d.kind = "stream"
    THEN Replay(strs[d.obj], dsk[strs[d.obj].path])
    ELSE [ok |-> TRUE, docs |-> d.docs]

\* a live Corpus and a pickled one are the same Corpus
SameCorpus(corpus, pickled, strs) ==
    /\ corpus.vocabulary = pickled.vocabulary
    /\ corpus.metadata = pickled.metadata
    /\ corpus.documents.kind = pickled.documents.kind
    /\ corpus.documents.docs = pickled.documents.docs
    /\ corpus.documents.kind = "stream" =>
          pickled.documents.state = <<strs[corpus.documents.obj].path,
                                      strs[corpus.documents.obj].size>>

\* a call of run made in this step found a pickled Corpus at its pickle_path
HitStep ==
    /\ pc = "idle"
    /\ runs' = runs + 1
    /\ cfg'.pickle_path # NoPath
    /\ cache[cfg'.pickle_path] # NoCorpus

\* C4: a call of run with a pickle_path at which a Corpus is persisted
\* returns that Corpus at once: no strategy is invoked, no vocabulary builder
\* and no storage is made (no DocumentStream is constructed, no backing file
\* is touched) and the pickle file is not rewritten.
C4_CacheHitDoesNoWork ==
    [][HitStep =>
          /\ pc' = "idle"
          /\ result'.kind = "corpus"
          /\ SameCorpus(result'.corpus, cache[cfg'.pickle_path], streams')
          /\ invoked' = {}
          /\ offered' = <<>>
          /\ cache' = cache
          /\ disk' = disk
          /\ vocab' = vocab
          /\ documents' = documents
          /\ \A o \in DOMAIN streams' :
                IF o \in DOMAIN streams THEN streams'[o] = streams[o]
                ELSE origin'[o] # 0 /\ streams'[o].file = NoFile]_vars

\* C4 witness: the second run has returned a pickled Corpus whose documents
\* are a DocumentStream of two documents, without invoking a strategy.
C4_Witness ==
    /\ pc = "idle"
    /\ runs = 2
    /\ invoked = {}
    /\ result.kind = "corpus"
    /\ result.corpus.documents.kind = "stream"
    /\ DocumentsLen(result.corpus.documents) = 2

\* a call of run returns a Corpus in this step
ReturnStep ==
    /\ pc' = "idle"
    /\ result'.kind = "corpus"
    /\ pc # "idle" \/ runs' # runs

\* C5: a run with a pickle_path that returns a Corpus leaves that Corpus
\* persisted at the path: when it built the Corpus itself, what it persisted
\* has the Informer's output in its metadata; a persisted Corpus is never
\* rewritten; and a run that finds one invokes no strategy.  So every later
\* run with the path returns the Corpus the first one returned.
C5_FinishedCorpusPersisted ==
    [][/\ \A p \in CachePaths : cache[p] # NoCorpus => cache'[p] = cache[p]
       /\ (ReturnStep /\ cfg'.pickle_path # NoPath) =>
             /\ cache'[cfg'.pickle_path] # NoCorpus
             /\ SameCorpus(result'.corpus, cache'[cfg'.pickle_path], streams')
             /\ "informer" \in invoked' =>
                   cache'[cfg'.pickle_path].metadata = [num_docs |-> Len(Kept(offered'))]
             /\ pc = "idle" => invoked' = {}]_vars

\* C5 witness: the second run returned the Corpus the first run persisted,
\* which has the Informer's output in its metadata and one document.
C5_Witness ==
    /\ pc = "idle"
    /\ runs = 2
    /\ invoked = {}
    /\ result.kind = "corpus"
    /\ cfg.pickle_path # NoPath
    /\ result.corpus.metadata = [num_docs |-> 1]
    /\ cache[cfg.pickle_path].metadata = [num_docs |-> 1]

\* the run that ended last built its Corpus itself
Ingested == pc = "idle" /\ result.kind = "corpus" /\ "inputer" \in invoked

\* C6: in a run that does not find a pickled Corpus, the stored documents
\* are at every moment exactly the Documents the Filterer accepted so far,
\* in the order their Texts were yielded (every Text is processed before the
\* next is yielded), none reordered, none dropped for being equal to
\* another; so are the documents of the Corpus returned, for a list and for
\* a DocumentStream.
C6_DocumentsAreAccepted ==
    /\ \A i \in 1..Len(offered) : offered[i].nth = i
    /\ pc # "idle" =>
          LET got == StoredDocs(documents, streams, disk)
          IN  got.ok /\ got.docs = Kept(offered)
    /\ Ingested =>
          LET got == StoredDocs(result.corpus.documents, streams, disk)
          IN  /\ got.ok
              /\ got.docs = Kept(offered)
              /\ DocumentsLen(result.corpus.documents) = Len(Kept(offered))
              /\ result.corpus.documents.kind =
                     (IF cfg.docs_path # NoPath THEN "stream" ELSE "list")

\* C6 witness: a run returned a DocumentStream holding the same Document
\* twice, having dropped none.
C6_Witness ==
    /\ Ingested
    /\ result.corpus.documents.kind = "stream"
    /\ Len(offered) = 2
    /\ offered[1].kept /\ offered[2].kept
    /\ offered[1].doc = offered[2].doc

C8_RaiseAborts ==
    [][(pc # "idle" /\ result'.kind = "raised") =>
          /\ pc' = "idle"
          /\ result'.by = CASE pc = "files" -> "inputer"
                            [] pc = "texts" -> "extractor"
                            [] pc = "finish" -> "informer"
                            [] OTHER -> result'.by
          /\ pc = "text" => result'.by \in {"tokenizer", "labeler", "filterer"}
          /\ result'.by \in invoked'
          /\ runs' = runs
          /\ offered' = offered
          /\ cache' = cache
          /\ documents.kind = "stream" =>
                LET p == streams[documents.obj].path
                IN  /\ SubSeq(disk'[p], 1, Len(disk[p])) = disk[p]
                    /\ disk'[p] = Kept(offered)]_vars

\* C8 witness: the Filterer raised in a run with a pickle_path after a
\* document had been appended to the DocumentStream: the document is in the
\* file and nothing is pickled.
C8_Witness ==
    /\ pc = "idle"
    /\ result.kind = "raised"
    /\ result.by = "filterer"
    /\ cfg.pickle_path # NoPath
    /\ cache[cfg.pickle_path] = NoCorpus
    /\ cfg.docs_path # NoPath
    /\ Len(disk[cfg.docs_path]) = 1

\* a call of run made in this step found no pickled Corpus and was given a
\* docs_path
ConstructStep ==
    /\ pc = "idle"
    /\ runs' = runs + 1
    /\ cfg'.pickle_path = NoPath \/ cache[cfg'.pickle_path] = NoCorpus
    /\ cfg'.docs_path # NoPath

\* the pickled Corpora whose documents are a DocumentStream at path p
CachedAt(p) == {c \in CachePaths : /\ cache[c] # NoCorpus
                                   /\ cache[c].documents.kind = "stream"
                                   /\ cache[c].documents.state[1] = p}

\* C24: a call of run that does not hit the cache and is given a docs_path
\* constructs a DocumentStream there: the new object has logical size 0 and
\* an open write handle, and the backing file is empty afterwards whatever
\* it held before, while every earlier stream object at that path and every
\* pickled Corpus on that path keeps the size it recorded, N > 0 included.
C24_ConstructionTruncates ==
    [][ConstructStep =>
          LET p == cfg'.docs_path
              o == Len(streams) + 1
          IN  /\ Len(streams') = o
              /\ documents' = StreamDocuments(o)
              /\ streams'[o].path = p
              /\ DocumentStream_len(streams'[o]) = 0
              /\ streams'[o].file = OpenFile("wb")
              /\ disk'[p] = <<>>
              /\ Replay(streams'[o], disk'[p]) = [ok |-> TRUE, docs |-> <<>>]
              /\ \A e \in Objects : streams'[e] = streams[e]
              /\ cache' = cache
              /\ \A c \in CachedAt(p) :
                    cache[c].documents.state[2] > 0 =>
                        Len(disk'[p]) < cache[c].documents.state[2]]_vars

\* C24 witness: run has just constructed a DocumentStream on a path at which
\* an earlier stream object stands for N > 0 documents and a pickled Corpus
\* records that size; the file is empty.
C24_Witness ==
    /\ pc = "files"
    /\ documents.kind = "stream"
    /\ nfiles = 0
    /\ LET o == documents.obj
           p == streams[o].path
       IN  /\ streams[o].size = 0
           /\ disk[p] = <<>>
           /\ \E e \in Objects :
                 /\ e # o
                 /\ streams[e].path = p
                 /\ streams[e].size > 0
                 /\ appended[e] # <<>>
                 /\ \E c \in CachedAt(p) : cache[c].documents.state[2] = streams[e].size

\* ------------------------------------------------------------------------
\* The corpora handed to test_train_split and build_docwords
\* ------------------------------------------------------------------------

\* the Text the Extractor yields at place i of an import
SampleText(i) ==
    CASE i % 3 = 0 -> [name |-> "a.txt", data |-> <<"cat", "dog">>]
      [] i % 3 = 1 -> [name |-> "b.txt", data |-> <<"mouse", "cat", "mouse">>]
      [] OTHER -> [name |-> "c.txt", data |-> <<>>]

\* the loop of Pipeline.run over the first n of these Texts with a
\* VocabBuilder and a Filterer that keeps everything
RECURSIVE Imported(_)
Imported(n) ==
    IF n = 0 THEN [vb |-> VocabBuilder_init, docs |-> <<>>]
    ELSE LET before == Imported(n - 1)
             t == SampleText(n - 1)
             conv == VocabBuilder_convert(before.vb, TokenLocs(t.data),
                                          [w \in Tokens |-> 0])
         IN  [vb |-> conv.vb,
              docs |-> Append(before.docs,
                              Document(t.data, conv.out, title_labeler(t.name)))]

\* the DocumentStream that run has appended docs to, nothing handed to the
\* OS yet
RECURSIVE Streamed(_)
Streamed(docs) ==
    IF docs = <<>> THEN [s |-> DocumentStream_init("docsA"), recs |-> <<>>]
    ELSE LET before == Streamed(SubSeq(docs, 1, Len(docs) - 1))
         IN  DocumentStream_append(before.s, before.recs, docs[Len(docs)], 0)

\* the Corpus run returns for these Texts, with num_docs_informer, on a list
\* (docs_path None) or on DocumentStream object 1
SampleCorpus(n, kind) ==
    LET imp == Imported(n)
        storage == IF kind = "list" THEN ListDocuments(imp.docs) ELSE StreamDocuments(1)
    IN  Corpus(storage, VocabTokens(imp.vb), [num_docs |-> n])

\* the DocumentStream variables for such a Corpus; flushed: the Corpus was
\* pickled since, which flushed the stream
SampleStorage(n, kind, flushed) ==
    IF kind = "list" THEN NoStream
    ELSE LET docs == Imported(n).docs
             st == Streamed(docs)
             fl == DocumentStream_getstate(st.s, st.recs)
         IN  /\ streams = <<IF flushed THEN fl.s ELSE st.s>>
             /\ disk = [q \in StreamPaths |->
                           IF q = "docsA" THEN (IF flushed THEN fl.recs ELSE st.recs)
                           ELSE <<>>]
             /\ scans = [i \in 1..MaxScans |-> IdleScan]
             /\ snaps = <<>>
             /\ appended = <<docs>>
             /\ snapDocs = <<>>
             /\ origin = <<0>>
             /\ writer = [q \in StreamPaths |-> IF q = "docsA" THEN 1 ELSE 0]

\* ------------------------------------------------------------------------
\* test_train_split
\* ------------------------------------------------------------------------

\* an optional count argument: None, or an int
NoneArg == {}
Given(n) == {n}
CountArgs == {NoneArg} \cup {Given(n) : n \in 0..MaxCount}
ArgValue(a) == CHOOSE n \in a : TRUE

\* not a, for an argument that is None or an int
Falsy(a) == a = NoneArg \/ a = Given(0)

\* int(x * .8) for a length x
EightTenths(x) == (x * 8) \div 10

\* The if / elif / elif on num_train and num_test
ResolveSizes(total, num_train, num_test) ==
    IF Falsy(num_train) /\ Falsy(num_test)
    THEN [num_train |-> EightTenths(total), num_test |-> total - EightTenths(total)]
    ELSE IF Falsy(num_train)
    THEN [num_train |-> total - ArgValue(num_test), num_test |-> ArgValue(num_test)]
    ELSE IF Falsy(num_test)
    THEN [num_train |-> ArgValue(num_train), num_test |-> total - ArgValue(num_train)]
    ELSE [num_train |-> ArgValue(num_train), num_test |-> ArgValue(num_test)]

\* A slice bound x on a sequence of n elements: negative bounds count from
\* the end, and bounds are clipped to 0..n.
SliceIndex(x, n) ==
    IF x < 0 THEN (IF x + n < 0 THEN 0 ELSE x + n)
    ELSE IF x > n THEN n ELSE x

\* seq[lo:hi], seq[:hi] and seq[lo:]
Slice(seq, lo, hi) ==
    LET a == SliceIndex(lo, Len(seq))
        b == SliceIndex(hi, Len(seq))
    IN  IF a < b THEN SubSeq(seq, a + 1, b) ELSE <<>>
SliceTo(seq, hi) == Slice(seq, 0, hi)
SliceFrom(seq, lo) ==
    LET a == SliceIndex(lo, Len(seq))
    IN  IF a < Len(seq) THEN SubSeq(seq, a + 1, Len(seq)) ELSE <<>>

\* np.random.permutation(n): the orders of 0..n-1
Permutations0(n) ==
    {p \in [1..n -> 0..(n - 1)] : \A i \in 1..n, j \in 1..n : p[i] = p[j] => i = j}

\* Pick that takes the document after the one the id names.
pick_next_document(docs, ids) == [j \in 1..Len(ids) |-> docs[((ids[j] + 1) % Len(docs)) + 1]]

\* [corpus.documents[d] for d in ids] on a list
Pick(docs, ids) == [j \in 1..Len(ids) |-> docs[ids[j] + 1]]

\* Corpus(..., corpus.vocabulary, {}) in place of the input's metadata.
split_corpus_fresh_metadata(docs, corpus) ==
    Corpus(ListDocuments(docs), corpus.vocabulary, EmptyDict)

\* Corpus(<the selected documents>, corpus.vocabulary, corpus.metadata)
SplitCorpus(docs, corpus) ==
    Corpus(ListDocuments(docs), corpus.vocabulary, corpus.metadata)

\* the try block whose test ids are doc_ids[num_train: num_test].
random_ids_test_to_num_test(doc_ids, num_train, num_test) ==
    [train_ids |-> SliceTo(doc_ids, num_train),
     test_ids |-> Slice(doc_ids, num_train, num_test)]

\* the try block: the ids and, as far as documents can be indexed, the two
\* corpora
RandomIds(doc_ids, num_train, num_test) ==
    [train_ids |-> SliceTo(doc_ids, num_train),
     test_ids |-> Slice(doc_ids, num_train, num_train + num_test)]

\* The pass that overwrites the first slot whatever np.random.randint drew.
update_overwrites_first(sample, doc_ids, i, doc, sample_size, n, r) ==
    IF i < sample_size
    THEN [sample |-> Append(sample, doc), doc_ids |-> Append(doc_ids, i), drew |-> FALSE,
          accepted |-> FALSE]
    ELSE IF n * i < sample_size * DrawGrid
    THEN [sample |-> [sample EXCEPT ![1] = doc],
          doc_ids |-> [doc_ids EXCEPT ![1] = i], drew |-> TRUE, accepted |-> TRUE]
    ELSE [sample |-> sample, doc_ids |-> doc_ids, drew |-> TRUE, accepted |-> FALSE]

\* The pass that records places counted from 1.
update_counts_from_one(sample, doc_ids, i, doc, sample_size, n, r) ==
    IF i < sample_size
    THEN [sample |-> Append(sample, doc), doc_ids |-> Append(doc_ids, i + 1), drew |-> FALSE,
          accepted |-> FALSE]
    ELSE IF n * i < sample_size * DrawGrid
    THEN [sample |-> [sample EXCEPT ![r + 1] = doc],
          doc_ids |-> [doc_ids EXCEPT ![r + 1] = i + 1], drew |-> TRUE, accepted |-> TRUE]
    ELSE [sample |-> sample, doc_ids |-> doc_ids, drew |-> TRUE, accepted |-> FALSE]

\* One pass of the reservoir loop for the document doc at place i: n is the
\* draw n / DrawGrid of np.random.random(), r that of np.random.randint.
ReservoirUpdate(sample, doc_ids, i, doc, sample_size, n, r) ==
    IF i < sample_size
    THEN [sample |-> Append(sample, doc), doc_ids |-> Append(doc_ids, i), drew |-> FALSE,
          accepted |-> FALSE]
    ELSE IF n * i < sample_size * DrawGrid
    THEN [sample |-> [sample EXCEPT ![r + 1] = doc],
          doc_ids |-> [doc_ids EXCEPT ![r + 1] = i], drew |-> TRUE, accepted |-> TRUE]
    ELSE [sample |-> sample, doc_ids |-> doc_ids, drew |-> TRUE, accepted |-> FALSE]

\* no draw of np.random.random() was made yet
NoDraw == [i |-> -1, n |-> 0, accepted |-> FALSE]

\* return (train_ids, train), (test_ids, test) or return train, test
SplitReturn(return_ids, train_ids, train, test_ids, test) ==
    IF return_ids THEN <<<<train_ids, train>>, <<test_ids, test>>>>
    ELSE <<train, test>>

\* test_train_split(corpus, num_train, num_test, return_ids=...) is called
SplitCalled(corpus, num_train, num_test, return_ids) ==
    [pc |-> "call", corpus |-> corpus,
     args |-> [num_train |-> num_train, num_test |-> num_test, return_ids |-> return_ids],
     num_train |-> 0, num_test |-> 0, path |-> "none",
     doc_ids |-> <<>>, sample |-> <<>>, i |-> 0, scan |-> IdleScan, draw |-> NoDraw,
     train_ids |-> <<>>, test_ids |-> <<>>, train |-> NoCorpus, test |-> NoCorpus,
     out |-> <<>>]

\* what the other operations leave unchanged while test_train_split runs
nonSplitVars == <<vocabVars, pipeVars, bd, labeler>>

\* The if / elif / elif that settles num_train and num_test.
SplitSizes ==
    /\ split.pc = "call"
    /\ LET total == DocumentsLen(split.corpus.documents)
           r == ResolveSizes(total, split.args.num_train, split.args.num_test)
       IN  split' = [split EXCEPT !.pc = "try", !.num_train = r.num_train,
                                  !.num_test = r.num_test]
    /\ UNCHANGED <<streamVars, nonSplitVars>>

\* The try block with the permutation perm: on a list it builds the two
\* corpora and test_train_split returns; indexing a DocumentStream raises
\* TypeError (when there is an id to index with), which starts the reservoir
\* sampling.
SplitTry(perm) ==
    /\ split.pc = "try"
    /\ LET corpus == split.corpus
           ids == RandomIds(perm, split.num_train, split.num_test)
           indexable == corpus.documents.kind = "list"
           docs == IF indexable THEN corpus.documents.docs ELSE <<>>
       IN  IF indexable \/ (ids.train_ids = <<>> /\ ids.test_ids = <<>>)
           THEN LET train == SplitCorpus(Pick(docs, ids.train_ids), corpus)
                    test == SplitCorpus(Pick(docs, ids.test_ids), corpus)
                IN  split' = [split EXCEPT
                        !.pc = "done", !.path = "random", !.doc_ids = perm,
                        !.train_ids = ids.train_ids, !.test_ids = ids.test_ids,
                        !.train = train, !.test = test,
                        !.out = SplitReturn(split.args.return_ids, ids.train_ids, train,
                                            ids.test_ids, test)]
           ELSE split' = [split EXCEPT !.pc = "loop", !.path = "reservoir",
                                       !.sample = <<>>, !.doc_ids = <<>>]
    /\ UNCHANGED <<streamVars, nonSplitVars>>

\* next() on the generator of corpus.documents that the for loop holds: the
\* first resumption flushes the stream.
CorpusScanNext(corpus, scan) ==
    LET o == corpus.documents.obj
        p == streams[o].path
    IN  IF scan.st = "idle"
        THEN DocumentStream_iter(o, streams[o], disk[p], appended[o])
        ELSE [s |-> streams[o], recs |-> disk[p], scan |-> ScanStep(scan, disk[p])]
SplitScanNext == CorpusScanNext(split.corpus, split.scan)

\* One pass of the reservoir loop: the generator yields the document at
\* place i.
ReservoirNext(n, r) ==
    /\ split.pc = "loop"
    /\ LET o == split.corpus.documents.obj
           nx == SplitScanNext
           sample_size == split.num_train + split.num_test
       IN  /\ nx.scan.st = "active"
           /\ r < Len(split.sample) \/ r = 0
           /\ streams' = [streams EXCEPT ![o] = nx.s]
           /\ disk' = [disk EXCEPT ![nx.s.path] = nx.recs]
           /\ IF split.i >= sample_size /\ split.i = 0
              THEN split' = [split EXCEPT !.pc = "ZeroDivisionError", !.scan = nx.scan]
              ELSE LET doc == nx.scan.out[Len(nx.scan.out)]
                       u == ReservoirUpdate(split.sample, split.doc_ids, split.i, doc,
                                            sample_size, n, r)
                   IN  split' = [split EXCEPT
                           !.scan = nx.scan, !.i = @ + 1,
                           !.sample = u.sample, !.doc_ids = u.doc_ids,
                           !.draw = IF u.drew
                                    THEN [i |-> split.i, n |-> n, accepted |-> u.accepted]
                                    ELSE @]
    /\ UNCHANGED <<scans, snaps, appended, snapDocs, origin, writer, nonSplitVars>>

\* The generator is exhausted: the reservoir is cut into train and test and
\* test_train_split returns.
ReservoirEnd ==
    /\ split.pc = "loop"
    /\ LET o == split.corpus.documents.obj
           nx == SplitScanNext
           corpus == split.corpus
           train_ids == SliceTo(split.doc_ids, split.num_train)
           test_ids == SliceFrom(split.doc_ids, split.num_train)
           train == SplitCorpus(SliceTo(split.sample, split.num_train), corpus)
           test == SplitCorpus(SliceFrom(split.sample, split.num_train), corpus)
       IN  /\ nx.scan.st \in {"done", "error"}
           /\ streams' = [streams EXCEPT ![o] = nx.s]
           /\ disk' = [disk EXCEPT ![nx.s.path] = nx.recs]
           /\ IF nx.scan.st = "error"
              THEN split' = [split EXCEPT !.pc = "EOFError", !.scan = nx.scan]
              ELSE split' = [split EXCEPT
                       !.pc = "done", !.scan = nx.scan,
                       !.train_ids = train_ids, !.test_ids = test_ids,
                       !.train = train, !.test = test,
                       !.out = SplitReturn(split.args.return_ids, train_ids, train,
                                           test_ids, test)]
    /\ UNCHANGED <<scans, snaps, appended, snapDocs, origin, writer, nonSplitVars>>

InitSplit ==
    /\ NoVocab
    /\ NoPipeline
    /\ bd = NoDocwords
    /\ labeler = NoLabeler
    /\ \E n \in 0..MaxDocs, kind \in {"list", "stream"}, flushed \in BOOLEAN,
          num_train \in CountArgs, num_test \in CountArgs, return_ids \in BOOLEAN :
          /\ kind = "list" => flushed
          /\ SampleStorage(n, kind, flushed)
          /\ split = SplitCalled(SampleCorpus(n, kind), num_train, num_test, return_ids)

NextSplit ==
    \/ SplitSizes
    \/ \E perm \in Permutations0(DocumentsLen(split.corpus.documents)) : SplitTry(perm)
    \/ \E n \in 0..(DrawGrid - 1), r \in 0..MaxDocs : ReservoirNext(n, r)
    \/ ReservoirEnd

SpecSplit == InitSplit /\ [][NextSplit]_vars

\* ------------------------------------------------------------------------
\* Properties of test_train_split (checked under SpecSplit)
\* ------------------------------------------------------------------------

\* the documents of the input corpus, in order
SplitDocs ==
    IF split.corpus.documents.kind = "list" THEN split.corpus.documents.docs
    ELSE appended[split.corpus.documents.obj]
SplitTotal == Len(SplitDocs)
SplitDone == split.pc = "done"
SampleSize == split.num_train + split.num_test
TrainDocs == split.train.documents.docs
TestDocs == split.test.documents.docs

C13_SizeResolution ==
    split.pc \notin {"none", "call"} =>
        LET a == split.args.num_train
            b == split.args.num_test
            total == SplitTotal
        IN  /\ (a = NoneArg /\ b = NoneArg) =>
                  /\ 10 * split.num_train <= 8 * total
                  /\ 8 * total < 10 * (split.num_train + 1)
                  /\ split.num_test = total - split.num_train
            /\ (a # NoneArg /\ b = NoneArg) =>
                  /\ split.num_train = ArgValue(a)
                  /\ split.num_test = total - ArgValue(a)
            /\ (a = NoneArg /\ b # NoneArg) =>
                  /\ split.num_test = ArgValue(b)
                  /\ split.num_train = total - ArgValue(b)
            /\ (a = NoneArg \/ b = NoneArg) => split.num_train + split.num_test = total

\* C14: when both num_train and num_test are given, whatever integers >= 0
\* they are, they are the sizes used.
C14_BothGivenUsedAsIs ==
    (split.pc \notin {"none", "call"}
        /\ split.args.num_train # NoneArg /\ split.args.num_test # NoneArg) =>
        /\ split.num_train = ArgValue(split.args.num_train)
        /\ split.num_test = ArgValue(split.args.num_test)

\* C15: in the reservoir loop, the document at place i >= k (k = num_train +
\* num_test) is accepted exactly when the draw u of np.random.random()
\* satisfies u < k / (i + 1).
C15_AcceptanceProbability ==
    (split.pc # "none" /\ split.draw.i >= 0) =>
        (split.draw.accepted <=> split.draw.n * (split.draw.i + 1) < SampleSize * DrawGrid)

\* the lists doc_ids the reservoir loop can hold after m documents, for a
\* reservoir of k slots (the document at a place stands for itself)
RECURSIVE ReservoirAfter(_, _)
ReservoirAfter(m, k) ==
    IF m = 0 THEN {<<>>}
    ELSE UNION {{ReservoirUpdate(ids, ids, m - 1, m - 1, k, n, r).doc_ids :
                    n \in 0..(DrawGrid - 1),
                    r \in 0..(IF Len(ids) = 0 THEN 0 ELSE Len(ids) - 1)} :
                ids \in ReservoirAfter(m - 1, k)}

\* C16: on the reservoir path with k = num_train + num_test >= 1 slots and
\* at least k documents, every place p < k is in the reservoir at the end of
\* some pass over the corpus; the reservoir a pass ends with is one of those
\* the loop can produce.
C16_FirstDocumentsCanSurvive ==
    (split.pc # "none" /\ split.path = "reservoir") =>
        /\ SplitDone => split.doc_ids \in ReservoirAfter(SplitTotal, SampleSize)
        /\ (SampleSize >= 1 /\ SplitTotal >= SampleSize) =>
              \A p \in 0..(SampleSize - 1) :
                  \E ids \in ReservoirAfter(SplitTotal, SampleSize) :
                      \E j \in 1..Len(ids) : ids[j] = p

\* C16 witness: a pass over four documents with two slots ended with place 0
\* still in the reservoir beside a document that replaced place 1.
C16_Witness ==
    /\ SplitDone
    /\ split.path = "reservoir"
    /\ SplitTotal = 4
    /\ SampleSize = 2
    /\ split.doc_ids[1] = 0
    /\ split.doc_ids[2] >= 2

\* C17 as stated: on the reservoir path with num_train + num_test equal to
\* the number of documents, train is the first num_train documents and test
\* the others, in the original order, the ids being 0..total-1, and nothing
\* is replaced.
C17_AsStated ==
    (SplitDone /\ split.path = "reservoir" /\ SampleSize = SplitTotal) =>
        /\ Len(TrainDocs) = split.num_train
        /\ split.draw = NoDraw
        /\ split.sample = SplitDocs
        /\ split.doc_ids = [j \in 1..SplitTotal |-> j - 1]
        /\ TrainDocs \o TestDocs = SplitDocs
        /\ split.train_ids \o split.test_ids = split.doc_ids

\* C17, amended: the same, provided the sizes settled on are not negative
\* (no given count exceeds the number of documents).
C17_FullSample ==
    (SplitDone /\ split.path = "reservoir" /\ SampleSize = SplitTotal
        /\ split.num_train >= 0 /\ split.num_test >= 0) =>
        /\ Len(TrainDocs) = split.num_train
        /\ split.draw = NoDraw
        /\ split.sample = SplitDocs
        /\ split.doc_ids = [j \in 1..SplitTotal |-> j - 1]
        /\ TrainDocs = SubSeq(SplitDocs, 1, split.num_train)
        /\ TestDocs = SubSeq(SplitDocs, split.num_train + 1, SplitTotal)
        /\ split.train_ids = [j \in 1..split.num_train |-> j - 1]
        /\ split.test_ids = [j \in 1..split.num_test |-> split.num_train + j - 1]

\* C17 witness: four documents on a DocumentStream split with the default
\* sizes: three in train, one in test.
C17_Witness ==
    /\ SplitDone
    /\ split.path = "reservoir"
    /\ split.args.num_train = NoneArg /\ split.args.num_test = NoneArg
    /\ SplitTotal = 4
    /\ Len(TrainDocs) = 3
    /\ Len(TestDocs) = 1

\* a sequence of ids names places of the corpus, none twice
DistinctPlaces(ids, bound) ==
    /\ \A j \in 1..Len(ids) : ids[j] \in 0..(bound - 1)
    /\ \A j \in 1..Len(ids), l \in 1..Len(ids) : ids[j] = ids[l] => j = l

\* C18: the train ids and test ids returned name places 0..total-1, no
\* place twice within or across them, and the j-th id is the place the j-th
\* returned document has in the corpus; while the reservoir loop runs, its
\* slots never exceed k, name distinct places already passed, and each holds
\* the document of its place.
C18_IdsAreDistinctPlaces ==
    /\ (split.pc \in {"loop", "done"} /\ split.path = "reservoir") =>
          /\ Len(split.sample) = Len(split.doc_ids)
          /\ Len(split.doc_ids) <= SampleSize
          /\ DistinctPlaces(split.doc_ids, split.i)
          /\ \A j \in 1..Len(split.doc_ids) :
                split.sample[j] = SplitDocs[split.doc_ids[j] + 1]
    /\ SplitDone =>
          /\ DistinctPlaces(split.train_ids \o split.test_ids, SplitTotal)
          /\ Len(TrainDocs) = Len(split.train_ids)
          /\ Len(TestDocs) = Len(split.test_ids)
          /\ \A j \in 1..Len(split.train_ids) :
                TrainDocs[j] = SplitDocs[split.train_ids[j] + 1]
          /\ \A j \in 1..Len(split.test_ids) :
                TestDocs[j] = SplitDocs[split.test_ids[j] + 1]

\* C18 witness: on a list of four documents, two train ids out of their
\* original order and one test id.
C18_Witness ==
    /\ SplitDone
    /\ split.path = "random"
    /\ SplitTotal = 4
    /\ Len(split.train_ids) = 2
    /\ Len(split.test_ids) = 1
    /\ split.train_ids[1] > split.train_ids[2]
    /\ split.args.return_ids
    /\ split.out[1][1] = split.train_ids

\* what iterating over the input corpus yields
SplitInputReplay(strs, dsk) == StoredDocs(split.corpus.documents, strs, dsk)

\* C19: no step of test_train_split changes the input corpus (its
\* vocabulary, its metadata, the documents it yields and their number), and
\* the train and test corpora returned have the input's vocabulary and
\* metadata.
C19_InputUnchanged ==
    [][split.pc # "none" =>
          /\ split'.corpus = split.corpus
          /\ SplitInputReplay(streams', disk') = SplitInputReplay(streams, disk)
          /\ SplitInputReplay(streams', disk').ok
          /\ split.corpus.documents.kind = "stream" =>
                streams'[1].size = streams[1].size /\ streams'[1].path = streams[1].path
          /\ split'.pc = "done" =>
                /\ split'.train.vocabulary = split.corpus.vocabulary
                /\ split'.train.metadata = split.corpus.metadata
                /\ split'.test.vocabulary = split.corpus.vocabulary
                /\ split'.test.metadata = split.corpus.metadata]_vars

\* C19 witness: a split of three documents on a DocumentStream returned; the
\* pass flushed the stream, and train and test carry the input's vocabulary
\* and metadata.
C19_Witness ==
    /\ SplitDone
    /\ split.path = "reservoir"
    /\ SplitTotal = 3
    /\ streams[1].flushed
    /\ Len(disk["docsA"]) = 3
    /\ split.train.metadata = [num_docs |-> 3]
    /\ split.test.vocabulary = <<"cat", "dog", "mouse">>

\* ------------------------------------------------------------------------
\* build_docwords
\* ------------------------------------------------------------------------

\* scipy.sparse.lil_matrix((D, V)): a shape and, for each row, the cells
\* that were assigned, by column
LilMatrix(D, V) == [shape |-> <<D, V>>, rows |-> [d \in 1..D |-> EmptyDict]]

\* docwords[d, v] on a lil_matrix: 0 for a cell never assigned
LilGet(m, d, v) == IF v \in DOMAIN m.rows[d + 1] THEN m.rows[d + 1][v] ELSE 0

\* docwords[d, v] = 1 in place of += 1.
lil_assign_one(m, d, v) ==
    [m EXCEPT !.rows[d + 1] = (v :> 1) @@ @]

\* docwords[d, v] += 1
LilIncrement(m, d, v) ==
    [m EXCEPT !.rows[d + 1] = (v :> (LilGet(m, d, v) + 1)) @@ @]

\* the rows of column v that hold a cell, in increasing order, each with
\* its value
RECURSIVE ColumnEntries(_, _, _)
ColumnEntries(m, v, D) ==
    IF D = 0 THEN <<>>
    ELSE LET above == ColumnEntries(m, v, D - 1)
         IN  IF v \in DOMAIN m.rows[D] THEN Append(above, <<D - 1, m.rows[D][v]>>)
             ELSE above

\* docwords.tocsc(): the same shape, the stored cells column by column
ToCsc(m) ==
    [shape |-> m.shape,
     cols |-> [c \in 1..m.shape[2] |-> ColumnEntries(m, c - 1, m.shape[1])]]

\* cell (d, v) of a csc matrix
CscGet(c, d, v) ==
    LET col == c.cols[v + 1]
        hits == {j \in 1..Len(col) : col[j][1] = d}
    IN  IF hits = {} THEN 0 ELSE col[CHOOSE j \in hits : TRUE][2]

\* build_docwords(corpus, V) is called
DocwordsCalled(corpus, V) ==
    [pc |-> "call", corpus |-> corpus, args |-> [V |-> V], D |-> 0, V |-> 0,
     docwords |-> LilMatrix(0, 0), d |-> -1, tokens |-> <<>>, t |-> 0,
     scan |-> IdleScan, out |-> LilMatrix(0, 0)]

\* what the other operations leave unchanged while build_docwords runs
nonDocwordsVars == <<vocabVars, pipeVars, split, labeler>>

\* D, V and the empty matrix
DocwordsBegin ==
    /\ bd.pc = "call"
    /\ LET D == DocumentsLen(bd.corpus.documents)
           V == IF bd.args.V = NoneArg THEN Len(bd.corpus.vocabulary)
                ELSE ArgValue(bd.args.V)
       IN  bd' = [bd EXCEPT !.pc = "loop", !.D = D, !.V = V, !.docwords = LilMatrix(D, V)]
    /\ UNCHANGED <<streamVars, nonDocwordsVars>>

\* for tl in doc.tokens: docwords[d, tl.token] += 1, which raises IndexError
\* for a column out of the matrix
DocwordsAdd ==
    /\ bd.pc = "loop"
    /\ bd.t < Len(bd.tokens)
    /\ LET v == bd.tokens[bd.t + 1].token
       IN  IF v >= bd.V
           THEN bd' = [bd EXCEPT !.pc = "IndexError"]
           ELSE bd' = [bd EXCEPT !.t = @ + 1,
                                 !.docwords = LilIncrement(bd.docwords, bd.d, v)]
    /\ UNCHANGED <<streamVars, nonDocwordsVars>>

\* for d, doc in enumerate(corpus.documents): the next document of a list or
\* of a DocumentStream (whose first resumption flushes it), or the end of
\* the loop and return docwords.tocsc()
DocwordsNextDoc ==
    /\ bd.pc = "loop"
    /\ bd.t = Len(bd.tokens)
    /\ IF bd.corpus.documents.kind = "list"
       THEN /\ LET docs == bd.corpus.documents.docs
               IN  IF bd.d + 1 < Len(docs)
                   THEN bd' = [bd EXCEPT !.d = @ + 1, !.t = 0,
                                         !.tokens = docs[bd.d + 2].tokens]
                   ELSE bd' = [bd EXCEPT !.pc = "done", !.out = ToCsc(bd.docwords)]
            /\ UNCHANGED streamVars
       ELSE LET o == bd.corpus.documents.obj
                nx == CorpusScanNext(bd.corpus, bd.scan)
            IN  /\ streams' = [streams EXCEPT ![o] = nx.s]
                /\ disk' = [disk EXCEPT ![nx.s.path] = nx.recs]
                /\ UNCHANGED <<scans, snaps, appended, snapDocs, origin, writer>>
                /\ CASE nx.scan.st = "active" ->
                          bd' = [bd EXCEPT !.d = @ + 1, !.t = 0, !.scan = nx.scan,
                                           !.tokens = nx.scan.out[Len(nx.scan.out)].tokens]
                     [] nx.scan.st = "done" ->
                          bd' = [bd EXCEPT !.pc = "done", !.scan = nx.scan,
                                           !.out = ToCsc(bd.docwords)]
                     [] OTHER -> bd' = [bd EXCEPT !.pc = "EOFError", !.scan = nx.scan]
    /\ UNCHANGED nonDocwordsVars

InitDocwords ==
    /\ NoVocab
    /\ NoPipeline
    /\ split = NoSplit
    /\ labeler = NoLabeler
    /\ \E n \in 0..MaxDocs, kind \in {"list", "stream"}, flushed \in BOOLEAN,
          V \in {NoneArg} \cup {Given(v) : v \in 0..(Cardinality(Tokens) + MaxExtra)} :
          /\ kind = "list" => flushed
          /\ SampleStorage(n, kind, flushed)
          /\ bd = DocwordsCalled(SampleCorpus(n, kind), V)

NextDocwords ==
    \/ DocwordsBegin
    \/ DocwordsAdd
    \/ DocwordsNextDoc

SpecDocwords == InitDocwords /\ [][NextDocwords]_vars

\* ------------------------------------------------------------------------
\* Properties of build_docwords (checked under SpecDocwords)
\* ------------------------------------------------------------------------

\* the documents of the input corpus, in order
DocwordsDocs ==
    IF bd.corpus.documents.kind = "list" THEN bd.corpus.documents.docs
    ELSE appended[bd.corpus.documents.obj]

\* how often token id v stands in the tokens of doc
Occurrences(doc, v) == Cardinality({i \in 1..Len(doc.tokens) : doc.tokens[i].token = v})

RECURSIVE RowSum(_, _, _)
RowSum(c, d, V) == IF V = 0 THEN 0 ELSE RowSum(c, d, V - 1) + CscGet(c, d, V - 1)

\* the V asked for is at least len(corpus.vocabulary), or is left out
WideEnough ==
    bd.args.V = NoneArg \/ ArgValue(bd.args.V) >= Len(bd.corpus.vocabulary)

\* C20: for V >= len(corpus.vocabulary), or V left out and then taken as
\* len(corpus.vocabulary), build_docwords returns a matrix of
\* len(corpus.documents) rows and V columns whose cell (d, v) is the number
\* of times id v stands in document d's tokens; so a column of an id no
\* document has is zero and a row sums to the document's token count.
C20_DocwordsCountsTokens ==
    (bd.pc # "none" /\ WideEnough) =>
        /\ bd.pc \notin {"IndexError", "EOFError"}
        /\ bd.pc = "done" =>
              LET docs == DocwordsDocs
                  V == IF bd.args.V = NoneArg THEN Len(bd.corpus.vocabulary)
                       ELSE ArgValue(bd.args.V)
              IN  /\ bd.out.shape = <<Len(docs), V>>
                  /\ Len(bd.out.cols) = V
                  /\ \A d \in 0..(Len(docs) - 1) :
                        /\ \A v \in 0..(V - 1) :
                              CscGet(bd.out, d, v) = Occurrences(docs[d + 1], v)
                        /\ RowSum(bd.out, d, V) = Len(docs[d + 1].tokens)
                  /\ \A v \in 0..(V - 1) :
                        (\A d \in 1..Len(docs) : Occurrences(docs[d], v) = 0) =>
                            bd.out.cols[v + 1] = <<>>

\* C20 witness: four documents on a DocumentStream and one column more than
\* the vocabulary has tokens: the second document has id 2 twice, the
\* third is empty, the last column is zero.
C20_Witness ==
    /\ bd.pc = "done"
    /\ bd.corpus.documents.kind = "stream"
    /\ bd.out.shape = <<4, 4>>
    /\ CscGet(bd.out, 1, 2) = 2
    /\ RowSum(bd.out, 2, 4) = 0
    /\ bd.out.cols[4] = <<>>

\* ------------------------------------------------------------------------
\* stream_labeler
\* ------------------------------------------------------------------------

\* d[k] = v on a dict
DictSet(d, k, v) == [x \in DOMAIN d \cup {k} |-> IF x = k THEN v ELSE d[x]]

\* d.pop(k) on a dict that holds k: the dict left
DictPop(d, k) == [x \in DOMAIN d \ {k} |-> d[x]]

\* stream_labeler(stream): the closure holds the stream and an empty cache.
\* The stream is an iterable of (key, value) pairs: either an iterator, which
\* every for statement resumes where the last one left it (pos pairs read),
\* or a sequence such as a list, over which every for statement makes a new
\* iterator that starts at the first pair.
stream_labeler(pairs, onepass) ==
    [pc |-> "made", pairs |-> pairs, onepass |-> onepass, pos |-> 0,
     cache |-> EmptyDict, calls |-> <<>>]

\* the for loop of _labeler from the pair after the j-th: the pair whose key
\* is name ends it, every pair read before that is put in the cache.
RECURSIVE LabelerSearch(_, _, _, _)
LabelerSearch(pairs, j, name, cch) ==
    IF j >= Len(pairs)
    THEN [found |-> FALSE, pos |-> j, cache |-> cch, value |-> 0]
    ELSE IF pairs[j + 1][1] = name
         THEN [found |-> TRUE, pos |-> j + 1, cache |-> cch, value |-> pairs[j + 1][2]]
         ELSE LabelerSearch(pairs, j + 1, name,
                            DictSet(cch, pairs[j + 1][1], pairs[j + 1][2]))

\* what a call of _labeler ends with: {attr: value} or KeyError(name)
Label(v) == [kind |-> "label", value |-> v]
KeyError(name) == [kind |-> "KeyError", name |-> name]

\* _labeler(name): the cached value, popped, when the cache holds the name;
\* else the value of the first pair of that key the for loop meets; else
\* KeyError(name) once the loop has run to the end of the stream.
Labeler_call(lb, name) ==
    IF name \in DOMAIN lb.cache
    THEN [lb |-> [lb EXCEPT !.cache = DictPop(@, name)], out |-> Label(lb.cache[name])]
    ELSE LET r == LabelerSearch(lb.pairs, IF lb.onepass THEN lb.pos ELSE 0, name, lb.cache)
             lb2 == [lb EXCEPT !.cache = r.cache,
                               !.pos = IF lb.onepass THEN r.pos ELSE 0]
         IN  [lb |-> lb2, out |-> IF r.found THEN Label(r.value) ELSE KeyError(name)]

\* the caller asks the labeler for the labels of name
LabelerCall(name) ==
    /\ labeler.pc = "made"
    /\ Len(labeler.calls) < MaxRequests
    /\ LET r == Labeler_call(labeler, name)
       IN  labeler' = [r.lb EXCEPT !.calls =
                          Append(@, [name |-> name, out |-> r.out,
                                     cached |-> labeler.cache, read |-> labeler.pos])]
    /\ UNCHANGED <<streamVars, vocabVars, pipeVars, split, bd>>

LabelStreams == UNION {[1..n -> LabelNames \X LabelValues] : n \in 0..MaxPairs}

InitLabeler ==
    /\ NoStream
    /\ NoVocab
    /\ NoPipeline
    /\ split = NoSplit
    /\ bd = NoDocwords
    /\ \E pairs \in LabelStreams, onepass \in BOOLEAN :
          labeler = stream_labeler(pairs, onepass)

NextLabeler ==
    \/ \E name \in LabelNames : LabelerCall(name)

SpecLabeler == InitLabeler /\ [][NextLabeler]_vars

\* ------------------------------------------------------------------------
\* Properties of stream_labeler (checked under SpecLabeler)
\* ------------------------------------------------------------------------

\* the names asked for so far, in order, and the keys of the stream
Requested == [i \in 1..Len(labeler.calls) |-> labeler.calls[i].name]
StreamKeys == [i \in 1..Len(labeler.pairs) |-> labeler.pairs[i][1]]

\* the keys of the pairs the stream has still to yield after read pairs
RestKeys(read) == {labeler.pairs[j][1] : j \in (read + 1)..Len(labeler.pairs)}

\* the names were asked for in the order the stream has them
InStreamOrder ==
    /\ Len(Requested) <= Len(StreamKeys)
    /\ Requested = SubSeq(StreamKeys, 1, Len(Requested))

\* C23: for a labeler on an iterable of (key, value) pairs: a call for a name
\* that is in the cache or in the rest of the stream returns a value the
\* stream pairs with that name, and the cached one when there is one, which
\* is then served; a call for a name in neither raises KeyError for that
\* name and leaves the stream exhausted; and while the names asked for so
\* far are the keys of the stream in the stream's order, the cache is empty.
C23_LabelsWhateverTheOrder ==
    labeler.pc = "made" =>
        /\ \A i \in 1..Len(labeler.calls) :
              LET c == labeler.calls[i] IN
              IF c.name \in DOMAIN c.cached
              THEN c.out = Label(c.cached[c.name])
              ELSE IF c.name \in RestKeys(c.read)
                   THEN /\ c.out.kind = "label"
                        /\ <<c.name, c.out.value>> \in
                               {labeler.pairs[j] : j \in 1..Len(labeler.pairs)}
                   ELSE c.out = KeyError(c.name)
        /\ InStreamOrder => DOMAIN labeler.cache = {}

====
